---------------------------- MODULE Spec2Model ----------------------------
(***************************************************************************)
(* The directory organizer of file_organizer.py: one invocation validates  *)
(* the source path, takes a snapshot of the regular files directly inside  *)
(* it, and moves each one into the folder of its category, creating the    *)
(* folder on demand and renaming on collision.  The filesystem is part of  *)
(* the state: the source directory with its permission bits, its entries,  *)
(* and the contents of its subdirectories.                                 *)
(***************************************************************************)
EXTENDS Integers, Sequences, FiniteSets, TLC

VARIABLES
  src,                \* the path source_directory names: kind, permissions, entries
  organize_by_type,   \* the second argument of the call
  pc,                 \* position of the invocation: start, loop, move, done
  files,              \* the snapshot, in enumeration order
  before_state,       \* names of the snapshot
  i,                  \* index in files of the file being processed
  target_folder,      \* category of the file being processed
  created_folders,    \* categories whose folder this invocation created
  file_moves,         \* the move records
  organized_count,    \* number of completed moves
  result,             \* what the invocation gave its caller
  run,                \* number of the invocation
  src0,               \* the filesystem when the current invocation started
  prev,               \* result of the previous invocation
  deleted             \* snapshot files another process has removed

vars ==
  << src, organize_by_type, pc, files, before_state, i, target_folder,
     created_folders, file_moves, organized_count, result, run, src0,
     prev, deleted >>

(* Bounds of the model. *)
MaxFiles == 3

MaxRuns == 2

MaxDeletes == 1

(***************************************************************************)
(* File names.  A name is its stem and its suffix; the stem is a base      *)
(* followed by the counters collision resolution appended ("x_1_2" is base *)
(* x with counters 1, 2), the suffix is the sequence of characters from    *)
(* the last dot on, or empty.                                              *)
(***************************************************************************)
Name(base, sfx, ext) == [base |-> base, sfx |-> sfx, ext |-> ext]

\* f"{original_name}_{counter}{extension}"
NewName(name, counter) ==
  [base |-> name.base, sfx |-> Append(name.sfx, counter), ext |-> name.ext]

\* the entry of the source directory a category's folder is: source_path / category
FolderName(category) == Name(category, <<>>, <<>>)

UpperCase ==
  << "A", "B", "C", "D", "E", "F", "G", "H", "I", "J", "K", "L", "M",
     "N", "O", "P", "Q", "R", "S", "T", "U", "V", "W", "X", "Y", "Z" >>

LowerCase ==
  << "a", "b", "c", "d", "e", "f", "g", "h", "i", "j", "k", "l", "m",
     "n", "o", "p", "q", "r", "s", "t", "u", "v", "w", "x", "y", "z" >>

LowerChar(c) ==
  IF \E k \in DOMAIN UpperCase : UpperCase[k] = c
    THEN LowerCase[CHOOSE k \in DOMAIN UpperCase : UpperCase[k] = c]
    ELSE c

\* the suffix taken as it is
NotLowered(ext) == [k \in 1..Len(ext) |-> ext[k]]

\* file_path.suffix.lower()
Lower(ext) == [k \in 1..Len(ext) |-> LowerChar(ext[k])]

file_categories ==
  <<
    [category |-> "Word Documents",
     extensions |-> <<
        <<".", "d", "o", "c">>, <<".", "d", "o", "c", "x">>,
        <<".", "r", "t", "f">>, <<".", "o", "d", "t">> >>],
    [category |-> "Excel Documents",
     extensions |-> <<
        <<".", "x", "l", "s">>, <<".", "x", "l", "s", "x">>,
        <<".", "c", "s", "v">>, <<".", "o", "d", "s">> >>],
    [category |-> "PowerPoint Documents",
     extensions |-> <<
        <<".", "p", "p", "t">>, <<".", "p", "p", "t", "x">>,
        <<".", "o", "d", "p">> >>],
    [category |-> "PDF Documents",
     extensions |-> <<
        <<".", "p", "d", "f">> >>],
    [category |-> "Images",
     extensions |-> <<
        <<".", "j", "p", "g">>, <<".", "j", "p", "e", "g">>,
        <<".", "p", "n", "g">>, <<".", "g", "i", "f">>,
        <<".", "b", "m", "p">>, <<".", "t", "i", "f", "f">>,
        <<".", "s", "v", "g">>, <<".", "w", "e", "b", "p">> >>],
    [category |-> "Videos",
     extensions |-> <<
        <<".", "m", "p", "4">>, <<".", "a", "v", "i">>,
        <<".", "m", "k", "v">>, <<".", "m", "o", "v">>,
        <<".", "w", "m", "v">>, <<".", "f", "l", "v">>,
        <<".", "w", "e", "b", "m">> >>],
    [category |-> "Audio",
     extensions |-> <<
        <<".", "m", "p", "3">>, <<".", "w", "a", "v">>,
        <<".", "f", "l", "a", "c">>, <<".", "a", "a", "c">>,
        <<".", "o", "g", "g">>, <<".", "w", "m", "a">> >>],
    [category |-> "Archives",
     extensions |-> <<
        <<".", "z", "i", "p">>, <<".", "r", "a", "r">>,
        <<".", "7", "z">>, <<".", "t", "a", "r">>, <<".", "g", "z">> >>],
    [category |-> "Text Files",
     extensions |-> <<
        <<".", "t", "x", "t">>, <<".", "m", "d">>, <<".", "l", "o", "g">> >>],
    [category |-> "Code Files",
     extensions |-> <<
        <<".", "p", "y">>, <<".", "j", "s">>,
        <<".", "h", "t", "m", "l">>, <<".", "c", "s", "s">>,
        <<".", "j", "a", "v", "a">>, <<".", "c", "p", "p">>,
        <<".", "c">>, <<".", "p", "h", "p">> >>],
    [category |-> "Executables",
     extensions |-> <<
        <<".", "e", "x", "e">>, <<".", "m", "s", "i">>,
        <<".", "b", "a", "t">>, <<".", "c", "m", "d">>,
        <<".", "s", "h">>, <<".", "r", "u", "n">>,
        <<".", "d", "e", "b">>, <<".", "r", "p", "m">>,
        <<".", "a", "p", "p", "i", "m", "a", "g", "e">> >>]
  >>

NoCategory == "None"

\* for category, extensions in file_categories.items(): first match, else None
RECURSIVE FindCategory(_, _)
FindCategory(ext, k) ==
  IF k > Len(file_categories) THEN NoCategory
  ELSE IF \E j \in DOMAIN file_categories[k].extensions :
            file_categories[k].extensions[j] = ext
    THEN file_categories[k].category
    ELSE FindCategory(ext, k + 1)

\* the category of a file: the loop above on the lower-cased suffix, then the fallback
TargetFolder(name) ==
  LET found == FindCategory(Lower(name.ext), 1)
  IN  IF found = NoCategory THEN "Other Files" ELSE found

(***************************************************************************)
(* The filesystem.  An entry is a regular file with its content, or a      *)
(* directory with its write permission and its children.                   *)
(***************************************************************************)
NoEntries == [n \in {} |-> n]

Content(place, name) == [at |-> place, name |-> name]

NoContent == Content("none", FolderName("none"))

File(content) ==
  [kind |-> "file", content |-> content, w |-> TRUE, kids |-> NoEntries]

Dir(w, kids) ==
  [kind |-> "dir", content |-> NoContent, w |-> w, kids |-> kids]

\* the names of a directory's entries that are regular files: f.is_file()
RegularFiles(entries) ==
  {n \in DOMAIN entries : entries[n].kind = "file"}

\* Path.exists() of source_path / name
ExistsInRoot(s, name) == name \in DOMAIN s.root

\* Path.exists() of source_path / category / name: false below a non-directory
ExistsInFolder(s, category, name) ==
  /\ FolderName(category) \in DOMAIN s.root
  /\ s.root[FolderName(category)].kind = "dir"
  /\ name \in DOMAIN s.root[FolderName(category)].kids

\* the existence check made once, for the original name only
DuplicateOnce(s, category, name, target, counter) ==
  IF ExistsInFolder(s, category, target) THEN NewName(name, counter) ELSE target

\* while target_file_path.exists(): the next candidate, the counter incremented
RECURSIVE DuplicateLoop(_, _, _, _, _)
DuplicateLoop(s, category, name, target, counter) ==
  IF ExistsInFolder(s, category, target)
    THEN DuplicateLoop(s, category, name, NewName(name, counter), counter + 1)
    ELSE target

\* the name the file gets in its folder
TargetName(s, category, name) == DuplicateLoop(s, category, name, name, 1)

(***************************************************************************)
(* The filesystem calls.  Each gives the filesystem after the call and the *)
(* exception it raised ("None": it returned).                              *)
(***************************************************************************)
Outcome(s, exc) == [fs |-> s, exc |-> exc]

\* target_dir.mkdir(exist_ok=True), the path not existing: needs write permission
\* on the source directory; the new folder is writable
Mkdir(s, category) ==
  IF s.w
    THEN Outcome([s EXCEPT !.root =
                    (FolderName(category) :> Dir(TRUE, NoEntries)) @@ @], "None")
    ELSE Outcome(s, "PermissionError")

\* the entry copied into the folder and left in the source directory
RenamedKeepingSource(s, name, folder, target) ==
  [s EXCEPT !.root[folder].kids = (target :> s.root[name]) @@ @]

\* the source directory with the entry name moved into the folder as target
Renamed(s, name, folder, target) ==
  [s EXCEPT !.root =
     [n \in (DOMAIN s.root) \ {name} |->
        IF n = folder
          THEN [s.root[n] EXCEPT !.kids = (target :> s.root[name]) @@ @]
          ELSE s.root[n]]]

\* the source directory with a copy of the entry name in the folder as target
Copied(s, name, folder, target) ==
  [s EXCEPT !.root[folder].kids = (target :> s.root[name]) @@ @]

\* a move that takes a missing source for a completed move
ShutilMoveIgnoringMissing(s, name, category, target) ==
  LET folder == FolderName(category)
  IN  IF ~(name \in DOMAIN s.root /\ s.root[name].kind = "file")
        THEN Outcome(s, "None")
      ELSE IF ~(folder \in DOMAIN s.root)
        THEN Outcome(s, "FileNotFoundError")
      ELSE IF s.root[folder].kind # "dir"
        THEN Outcome(s, "NotADirectoryError")
      ELSE IF s.w /\ s.root[folder].w
        THEN Outcome([s EXCEPT !.root =
               [n \in (DOMAIN s.root) \ {name} |->
                  IF n = folder
                    THEN [s.root[n] EXCEPT !.kids = (target :> s.root[name]) @@ @]
                    ELSE s.root[n]]], "None")
      ELSE IF s.root[folder].w
        THEN Outcome([s EXCEPT !.root[folder].kids = (target :> s.root[name]) @@ @],
                     "PermissionError")
      ELSE Outcome(s, "PermissionError")

\* shutil.move(str(file_path), str(target_file_path)): os.rename, and on any
\* OSError of it copy2 to the destination followed by os.unlink of the source.
\* os.rename needs write permission on both directories, copy2 on the
\* destination's, os.unlink on the source's.
ShutilMove(s, name, category, target) ==
  LET folder == FolderName(category)
  IN  IF ~(name \in DOMAIN s.root /\ s.root[name].kind = "file")
        THEN Outcome(s, "FileNotFoundError")
      ELSE IF ~(folder \in DOMAIN s.root)
        THEN Outcome(s, "FileNotFoundError")
      ELSE IF s.root[folder].kind # "dir"
        THEN Outcome(s, "NotADirectoryError")
      ELSE IF s.w /\ s.root[folder].w
        THEN Outcome(Renamed(s, name, folder, target), "None")
      ELSE IF s.root[folder].w
        THEN Outcome(Copied(s, name, folder, target), "PermissionError")
      ELSE Outcome(s, "PermissionError")

(***************************************************************************)
(* What the invocation gives its caller.                                   *)
(***************************************************************************)
Message(kind) == [kind |-> kind, cause |-> "None"]

\* only the PermissionError clause: any other exception reaches the caller
ExceptPermissionOnly(exc) ==
  IF exc = "PermissionError"
    THEN [kind |-> "permission_denied", cause |-> "None"]
    ELSE [kind |-> "raised", cause |-> exc]

\* only the Exception clause: a permission error gets the generic message
ExceptGenericOnly(exc) == [kind |-> "error", cause |-> exc]

\* except PermissionError: ... except Exception as e: ...
Except(exc) ==
  IF exc = "PermissionError"
    THEN Message("permission_denied")
    ELSE [kind |-> "error", cause |-> exc]

Min(a, b) == IF a < b THEN a ELSE b

\* a report that counts the folders files went to, not the folders created
SummaryOfUsedFolders ==
  [kind     |-> "summary",
   cause    |-> "None",
   before   |-> Len(before_state),
   preview  |-> SubSeq(before_state, 1, Min(5, Len(before_state))),
   more     |-> Len(before_state) > 5,
   changes  |-> [k \in 1..Len(file_moves) |->
                   [file |-> file_moves[k].file,
                    to |-> file_moves[k].to,
                    new_name |-> file_moves[k].new_name,
                    renamed |-> file_moves[k].file # file_moves[k].new_name]],
   created  |-> Cardinality({file_moves[k].to : k \in 1..Len(file_moves)}),
   folders  |-> [c \in created_folders |->
                   Cardinality({k \in 1..Len(file_moves) : file_moves[k].to = c})]]

\* the report of a completed run
Summary ==
  [kind     |-> "summary",
   cause    |-> "None",
   before   |-> Len(before_state),
   preview  |-> SubSeq(before_state, 1, Min(5, Len(before_state))),
   more     |-> Len(before_state) > 5,
   changes  |-> [k \in 1..Len(file_moves) |->
                   [file |-> file_moves[k].file,
                    to |-> file_moves[k].to,
                    new_name |-> file_moves[k].new_name,
                    renamed |-> file_moves[k].file # file_moves[k].new_name]],
   created  |-> Cardinality(created_folders),
   folders  |-> [c \in created_folders |->
                   Cardinality({k \in 1..Len(file_moves) : file_moves[k].to = c})]]

\* the kinds of text the function returns
ReturnedText ==
  {"not_exist", "not_dir", "no_files", "summary", "permission_denied", "error"}

\* the orders in which iterdir() may yield a set of entries
Enumerations(S) ==
  {order \in [1..Cardinality(S) -> S] :
     \A a, b \in 1..Cardinality(S) : a # b => order[a] # order[b]}

(***************************************************************************)
(* The steps of an invocation.                                             *)
(***************************************************************************)
Locals ==
  << files, before_state, i, target_folder, created_folders, file_moves,
     organized_count >>

Caller == << organize_by_type, run, src0, prev, deleted >>

Return(r) ==
  /\ pc' = "done"
  /\ result' = r

\* source_path.exists()
PathExists(s) == s.kind # "missing"

\* source_path.is_dir()
IsDir(s) == s.kind = "dir"

\* the two checks in the other order
ValidationDirFirst(s) ==
  IF ~(s.kind = "dir") THEN "not_dir"
  ELSE IF ~(s.kind # "missing") THEN "not_exist"
  ELSE "None"

\* lines 47-51: the first check that fails ("None": both pass)
Validation(s) ==
  IF ~PathExists(s) THEN "not_exist"
  ELSE IF ~IsDir(s) THEN "not_dir"
  ELSE "None"

\* lines 46-65: the checks, then the snapshot; listing the directory needs
\* read permission on it
Validate ==
  /\ pc = "start"
  /\ IF Validation(src) # "None"
       THEN Return(Message(Validation(src))) /\ UNCHANGED Locals
     ELSE IF ~src.r
       THEN Return(Except("PermissionError")) /\ UNCHANGED Locals
     ELSE \E order \in Enumerations(RegularFiles(src.root)) :
            IF Len(order) = 0
              THEN Return(Message("no_files")) /\ UNCHANGED Locals
              ELSE /\ files' = order
                   /\ before_state' = order
                   /\ i' = 1
                   /\ organized_count' = 0
                   /\ created_folders' = {}
                   /\ file_moves' = <<>>
                   /\ pc' = "loop"
                   /\ UNCHANGED << target_folder, result >>
  /\ UNCHANGED << src, Caller >>

\* lines 69-88: the category of the next file, and its folder
Categorize ==
  /\ pc = "loop"
  /\ i <= Len(files)
  /\ LET category == TargetFolder(files[i])
     IN  /\ target_folder' = category
         /\ IF ExistsInRoot(src, FolderName(category))
              THEN /\ pc' = "move"
                   /\ UNCHANGED << src, created_folders, result >>
              ELSE LET made == Mkdir(src, category)
                   IN  IF made.exc = "None"
                         THEN /\ src' = made.fs
                              /\ created_folders' = created_folders \cup {category}
                              /\ pc' = "move"
                              /\ UNCHANGED result
                         ELSE /\ Return(Except(made.exc))
                              /\ UNCHANGED << src, created_folders >>
  /\ UNCHANGED << files, before_state, i, file_moves, organized_count, Caller >>

\* lines 91-112: the free name in the folder, the move, the move record
MoveFile ==
  /\ pc = "move"
  /\ LET name == files[i]
         target == TargetName(src, target_folder, name)
         moved == ShutilMove(src, name, target_folder, target)
     IN  /\ src' = moved.fs
         /\ IF moved.exc = "None"
              THEN /\ organized_count' = organized_count + 1
                   /\ file_moves' = Append(file_moves,
                        [file |-> name, from |-> "Root Directory",
                         to |-> target_folder, new_name |-> target])
                   /\ i' = i + 1
                   /\ pc' = "loop"
                   /\ UNCHANGED result
              ELSE /\ Return(Except(moved.exc))
                   /\ UNCHANGED << i, file_moves, organized_count >>
  /\ UNCHANGED << files, before_state, target_folder, created_folders, Caller >>

\* lines 116-138: every file processed, the summary is returned
Summarize ==
  /\ pc = "loop"
  /\ i > Len(files)
  /\ Return(Summary)
  /\ UNCHANGED << src, Locals, Caller >>

\* the caller invokes the tool again on the same path
Reinvoke ==
  /\ pc = "done"
  /\ run < MaxRuns
  /\ run' = run + 1
  /\ prev' = result.kind
  /\ src0' = src
  /\ pc' = "start"
  /\ result' = Message("none")
  /\ files' = <<>>
  /\ before_state' = <<>>
  /\ i' = 0
  /\ target_folder' = NoCategory
  /\ created_folders' = {}
  /\ file_moves' = <<>>
  /\ organized_count' = 0
  /\ deleted' = {}
  /\ UNCHANGED << src, organize_by_type >>

\* another process removes a file of the snapshot that has not been moved yet
ExternalDelete ==
  /\ pc \in {"loop", "move"}
  /\ Cardinality(deleted) < MaxDeletes
  /\ \E k \in i..Len(files) :
       /\ files[k] \in RegularFiles(src.root)
       /\ src' = [src EXCEPT !.root = [n \in (DOMAIN @) \ {files[k]} |-> @[n]]]
       /\ deleted' = deleted \cup {files[k]}
  /\ UNCHANGED << organize_by_type, pc, Locals, result, run, src0, prev >>

(***************************************************************************)
(* The initial filesystems.                                                *)
(***************************************************************************)
png == << ".", "p", "n", "g" >>

PDF == << ".", "P", "D", "F" >>

dat == << ".", "d", "a", "t" >>

\* the files the source directory may hold
RootCandidates ==
  { Name("x", <<>>, png), Name("x", <<1>>, png), Name("y", <<>>, PDF),
    Name("c", <<>>, dat), FolderName("Images") }

\* what an Images folder may already hold: x.png (a file or a directory), x_1.png
ImagesContents ==
  { kids \in UNION {[D -> {"file", "dir"}] :
                      D \in SUBSET {Name("x", <<>>, png), Name("x", <<1>>, png)}} :
      Name("x", <<1>>, png) \in DOMAIN kids => kids[Name("x", <<1>>, png)] = "file" }

Populated(place, kinds) ==
  [n \in DOMAIN kinds |->
     IF kinds[n] = "file" THEN File(Content(place, n)) ELSE Dir(TRUE, NoEntries)]

\* the subdirectories the source directory may hold
ImagesFolders ==
  { (FolderName("Images") :> Dir(w, Populated("Images", kids))) :
      w \in BOOLEAN, kids \in ImagesContents } \cup {NoEntries}

PdfFolders ==
  { (FolderName("PDF Documents") :> Dir(w, NoEntries)) : w \in BOOLEAN }
    \cup {NoEntries}

OtherFolders ==
  { (FolderName("sub") :>
       Dir(TRUE, Populated("sub", (Name("x", <<>>, png) :> "file")))),
    NoEntries }

Roots ==
  { Populated("root", [n \in fs |-> "file"]) @@ images @@ pdf @@ other :
      fs \in {S \in SUBSET RootCandidates : Cardinality(S) <= MaxFiles},
      images \in ImagesFolders, pdf \in PdfFolders, other \in OtherFolders }

Sources ==
  { [kind |-> "dir", r |-> r, w |-> w, root |-> root] :
      r \in BOOLEAN, w \in BOOLEAN, root \in Roots }
    \cup { [kind |-> k, r |-> TRUE, w |-> TRUE, root |-> NoEntries] :
             k \in {"missing", "file"} }

Init ==
  /\ src \in Sources
  /\ organize_by_type \in BOOLEAN
  /\ pc = "start"
  /\ files = <<>>
  /\ before_state = <<>>
  /\ i = 0
  /\ target_folder = NoCategory
  /\ created_folders = {}
  /\ file_moves = <<>>
  /\ organized_count = 0
  /\ result = Message("none")
  /\ run = 1
  /\ src0 = src
  /\ prev = "none"
  /\ deleted = {}

Next ==
  \/ Validate
  \/ Categorize
  \/ MoveFile
  \/ Summarize
  \/ Reinvoke

Spec == Init /\ [][Next]_vars

\* the same with another process deleting files while the run is under way,
\* from the listable directories without the unrelated subdirectory
NextEnv ==
  \/ Next
  \/ ExternalDelete

InitEnv ==
  /\ Init
  /\ organize_by_type
  /\ src.kind = "dir"
  /\ src.r
  /\ FolderName("sub") \notin DOMAIN src.root

SpecEnv == InitEnv /\ [][NextEnv]_vars

(***************************************************************************)
(* Classification over the whole table: the source directory holds x.<e>   *)
(* and x.<v>, e an extension of the table (or one it does not list) and v  *)
(* e itself, e in upper case, or e with its first letter in upper case.    *)
(***************************************************************************)
UpperChar(c) ==
  IF \E k \in DOMAIN LowerCase : LowerCase[k] = c
    THEN UpperCase[CHOOSE k \in DOMAIN LowerCase : LowerCase[k] = c]
    ELSE c

Upper(ext) == [k \in 1..Len(ext) |-> UpperChar(ext[k])]

Capitalized(ext) ==
  [k \in 1..Len(ext) |-> IF k = 2 THEN UpperChar(ext[k]) ELSE ext[k]]

TableExtensions ==
  UNION {{file_categories[k].extensions[j] :
            j \in DOMAIN file_categories[k].extensions} :
           k \in DOMAIN file_categories}

UnlistedExtensions ==
  { <<>>, dat, << ".", "p", "n" >>, << ".", "p", "n", "g", "x" >>,
    << ".", "c", "p" >>, << "p", "n", "g" >> }

ClassifySources ==
  { [kind |-> "dir", r |-> TRUE, w |-> TRUE,
     root |-> Populated("root",
                [n \in {Name("x", <<>>, e), Name("x", <<>>, v)} |-> "file"])] :
      <<e, v>> \in UNION {{<<e, e>>, <<e, Upper(e)>>, <<e, Capitalized(e)>>} :
                            e \in TableExtensions \cup UnlistedExtensions} }

InitClassify ==
  /\ src \in ClassifySources
  /\ organize_by_type \in BOOLEAN
  /\ pc = "start"
  /\ files = <<>>
  /\ before_state = <<>>
  /\ i = 0
  /\ target_folder = NoCategory
  /\ created_folders = {}
  /\ file_moves = <<>>
  /\ organized_count = 0
  /\ result = Message("none")
  /\ run = 1
  /\ src0 = src
  /\ prev = "none"
  /\ deleted = {}

SpecClassify == InitClassify /\ [][Next]_vars

(***************************************************************************)
(* Properties.                                                             *)
(***************************************************************************)
Snapshot == {files[k] : k \in 1..Len(files)}

\* the folder of a category is a directory of s
IsFolder(s, category) ==
  /\ FolderName(category) \in DOMAIN s.root
  /\ s.root[FolderName(category)].kind = "dir"

KidsOf(s, category) == s.root[FolderName(category)].kids

\* the regular file name of s's root is, unchanged, the file it was when the run began
UntouchedInRoot(s, name) ==
  /\ name \in DOMAIN s.root
  /\ s.root[name] = src0.root[name]

\* the file that was name in the root when the run began is in the category's folder as target
MovedTo(s, name, category, target) ==
  /\ IsFolder(s, category)
  /\ target \in DOMAIN KidsOf(s, category)
  /\ KidsOf(s, category)[target] = src0.root[name]

\* the file that was name in the root when the run began is in the category's
\* folder, at a path where nothing was when the run began
InFolder(s, name, category) ==
  /\ IsFolder(s, category)
  /\ \E t \in DOMAIN KidsOf(s, category) :
       /\ KidsOf(s, category)[t] = src0.root[name]
       /\ ~ExistsInFolder(src0, category, t)

Failed == pc = "done" /\ result.kind \in {"permission_denied", "error"}

\* C1: every invocation, whatever its arguments and the filesystem, ends by
\* returning one of the function's texts (the summary or an error message), and
\* no exception reaches the caller: an invocation that is over has a text as
\* its result, and one that is not is at a position from which it goes on (the
\* checks, the loop with files left or the summary due, a move of a file of
\* the snapshot), having completed one move for each file behind it.
C1_AlwaysReturnsText ==
  /\ pc \in {"start", "loop", "move", "done"}
  /\ pc = "done" => result.kind \in ReturnedText
  /\ pc = "loop" => i \in 1..(Len(files) + 1)
  /\ pc = "move" => i \in 1..Len(files) /\ target_folder # NoCategory
  /\ pc \in {"loop", "move"} => organized_count = i - 1

\* a run that a failing move ended with the generic message
C1_Witness ==
  /\ pc = "done"
  /\ result.kind = "error"
  /\ result.cause = "NotADirectoryError"
  /\ organized_count >= 1

\* C2: after a run that returned the summary, every file of the snapshot is in
\* the folder of its category, the root holds no regular file, and the summary
\* reports as many files as the snapshot holds and as many created folders as
\* there are categories of snapshot files whose folder did not exist before.
C2_SuccessfulRun ==
  (pc = "done" /\ result.kind = "summary") =>
    /\ Snapshot = RegularFiles(src0.root)
    /\ Snapshot # {}
    /\ \A n \in Snapshot : InFolder(src, n, TargetFolder(n))
    /\ \A k \in 1..Len(files) :
         MovedTo(src, files[k], result.changes[k].to, result.changes[k].new_name)
    /\ RegularFiles(src.root) = {}
    /\ result.before = Cardinality(Snapshot)
    /\ Len(result.changes) = Cardinality(Snapshot)
    /\ result.created =
         Cardinality({TargetFolder(n) : n \in Snapshot} \ 
                       {c \in {TargetFolder(n) : n \in Snapshot} : IsFolder(src0, c)})

\* three files of three categories moved, three folders created
C2_Witness ==
  /\ pc = "done"
  /\ result.kind = "summary"
  /\ result.before = 3
  /\ result.created = 3

\* the counter of a resolved name: the last one appended to the stem
LastCounter(name) == name.sfx[Len(name.sfx)]

\* C3: collision resolution never overwrites.  Whatever a category folder held
\* when the run began it still holds, under the same name and with the same
\* content; and the move just made gave the file its own name when that was
\* free, and otherwise <stem>_<n><ext> for the least n >= 1 that was free.
C3_NeverOverwrites ==
  /\ \A f \in DOMAIN src0.root :
       src0.root[f].kind = "dir" =>
         /\ f \in DOMAIN src.root
         /\ src.root[f].kind = "dir"
         /\ \A n \in DOMAIN src0.root[f].kids :
              /\ n \in DOMAIN src.root[f].kids
              /\ src.root[f].kids[n] = src0.root[f].kids[n]
  /\ \A a, b \in 1..Len(file_moves) :
       (a # b /\ file_moves[a].to = file_moves[b].to)
          => file_moves[a].new_name # file_moves[b].new_name
  /\ (pc = "loop" /\ Len(file_moves) > 0) =>
       LET m == file_moves[Len(file_moves)]
           others == (DOMAIN KidsOf(src, m.to)) \ {m.new_name}
       IN  /\ MovedTo(src, m.file, m.to, m.new_name)
           /\ \/ m.new_name = m.file
              \/ /\ m.file \in others
                 /\ Len(m.new_name.sfx) = Len(m.file.sfx) + 1
                 /\ m.new_name = NewName(m.file, LastCounter(m.new_name))
                 /\ LastCounter(m.new_name) >= 1
                 /\ \A j \in 1..(LastCounter(m.new_name) - 1) :
                      NewName(m.file, j) \in others

\* a file renamed with counter 2 into a folder that already held its name and
\* the name with counter 1, one of them put there earlier in the same run
C3_Witness ==
  /\ pc = "loop"
  /\ Len(file_moves) = 2
  /\ file_moves[2].new_name = NewName(file_moves[2].file, 2)
  /\ file_moves[1].to = file_moves[2].to
  /\ file_moves[1].new_name = NewName(file_moves[2].file, 1)


\* the regular files of the root and of its subdirectories, each with its place
AllRegularFiles(s) ==
  {<<FolderName("."), n>> : n \in RegularFiles(s.root)} \cup
  UNION {{<<f, n>> : n \in RegularFiles(s.root[f].kids)} :
           f \in {d \in DOMAIN s.root : s.root[d].kind = "dir"}}

\* the file that was name in the root when the run began is in some folder,
\* at a path where nothing was when the run began
InSomeFolder(s, name) ==
  \E f \in DOMAIN s.root :
    /\ s.root[f].kind = "dir"
    /\ \E t \in DOMAIN s.root[f].kids :
         /\ s.root[f].kids[t] = src0.root[name]
         /\ ~(/\ f \in DOMAIN src0.root
              /\ src0.root[f].kind = "dir"
              /\ t \in DOMAIN src0.root[f].kids)

\* C4: no data loss and no duplication.  In every state of a run each file of
\* the snapshot is in exactly one place, at its path in the root or in the
\* folder of its category, never in both and never in neither; and when the
\* run is over the root and its folders hold as many regular files as before.
C4_EachFileInOnePlace ==
  /\ \A k \in 1..Len(files) :
       UntouchedInRoot(src, files[k]) # InFolder(src, files[k], TargetFolder(files[k]))
  /\ pc = "done" =>
       Cardinality(AllRegularFiles(src)) = Cardinality(AllRegularFiles(src0))

\* C5: abort without rollback.  When a run aborts on its i-th file, it returns
\* the permission-denied message for a permission error and otherwise the
\* generic message with the cause; the i-1 files before it are in their
\* folders, the i-th and every later file are in the root as they were, and
\* no later file has reached any folder.
C5_AbortWithoutRollback ==
  (Failed /\ files # <<>>) =>
    /\ i \in 1..Len(files)
    /\ \/ result.kind = "permission_denied"
       \/ result.kind = "error" /\ result.cause \notin {"None", "PermissionError"}
    /\ result.kind = "error" => ~IsFolder(src, target_folder)
    /\ result.kind = "permission_denied" =>
         \/ ~src.w
         \/ IsFolder(src, target_folder) /\ ~src.root[FolderName(target_folder)].w
    /\ Len(file_moves) = i - 1
    /\ organized_count = i - 1
    /\ \A k \in 1..(i - 1) :
         /\ file_moves[k].file = files[k]
         /\ file_moves[k].to = TargetFolder(files[k])
         /\ MovedTo(src, files[k], file_moves[k].to, file_moves[k].new_name)
         /\ files[k] \notin RegularFiles(src.root)
    /\ \A k \in i..Len(files) : UntouchedInRoot(src, files[k])
    /\ \A k \in (i + 1)..Len(files) : ~InSomeFolder(src, files[k])

\* the second of three files hit a permission error: one moved, two left
C5_Witness ==
  /\ Failed
  /\ result.kind = "permission_denied"
  /\ Len(files) = 3
  /\ i = 2
  /\ organized_count = 1

\* C6 as stated: a missing path gives the does-not-exist message, a path that
\* is no directory the not-a-directory message, a directory without a regular
\* file the no-files message, and in the three cases the filesystem is as it was.
C6_ValidationAsStated ==
  pc = "done" =>
    /\ src0.kind = "missing" => result.kind = "not_exist" /\ src = src0
    /\ src0.kind = "file" => result.kind = "not_dir" /\ src = src0
    /\ (src0.kind = "dir" /\ RegularFiles(src0.root) = {}) =>
         result.kind = "no_files" /\ src = src0

\* C6, amended: a missing path gives the does-not-exist message, a path that
\* is no directory the not-a-directory message, a directory that can be listed
\* and holds no regular file the no-files message, and one that cannot be
\* listed the permission-denied message; in all these cases the filesystem is
\* as it was.
C6_Validation ==
  pc = "done" =>
    /\ src0.kind = "missing" => result.kind = "not_exist" /\ src = src0
    /\ src0.kind = "file" => result.kind = "not_dir" /\ src = src0
    /\ (src0.kind = "dir" /\ src0.r /\ RegularFiles(src0.root) = {}) =>
         result.kind = "no_files" /\ src = src0
    /\ (src0.kind = "dir" /\ ~src0.r) =>
         result.kind = "permission_denied" /\ src = src0

\* a directory holding only subdirectories, one of them with a file inside
C6_Witness ==
  /\ pc = "done"
  /\ run = 1
  /\ src0.kind = "dir"
  /\ result.kind = "no_files"
  /\ FolderName("sub") \in DOMAIN src0.root
  /\ src = src0

\* C7: idempotence.  An invocation that follows one that returned the summary
\* takes no snapshot, moves nothing, creates no folder, leaves the filesystem
\* as it found it, and returns the no-files message.
C7_Idempotent ==
  (run >= 2 /\ prev = "summary") =>
    /\ pc \in {"start", "done"}
    /\ src = src0
    /\ files = <<>>
    /\ file_moves = <<>>
    /\ created_folders = {}
    /\ pc = "done" => result.kind = "no_files"

\* the second run over a directory the first one organized into two folders
C7_Witness ==
  /\ run = 2
  /\ prev = "summary"
  /\ pc = "done"
  /\ result.kind = "no_files"
  /\ IsFolder(src, "Images")
  /\ IsFolder(src, "Other Files")
  /\ Cardinality(DOMAIN KidsOf(src, "Images")) >= 2

C10_FolderIsDirectory ==
  /\ pc = "move" => IsFolder(src, target_folder)
  /\ \A c \in created_folders : IsFolder(src, c) /\ ~IsFolder(src0, c)
  /\ \A k \in 1..Len(file_moves) :
       (IsFolder(src, file_moves[k].to) /\ ~IsFolder(src0, file_moves[k].to))
          => file_moves[k].to \in created_folders


\* l is e with its upper-case letters replaced by their lower-case ones
IsLowerOf(l, e) ==
  /\ Len(l) = Len(e)
  /\ \A k \in 1..Len(e) :
       IF \E j \in DOMAIN UpperCase : UpperCase[j] = e[k]
         THEN \E j \in DOMAIN UpperCase : UpperCase[j] = e[k] /\ LowerCase[j] = l[k]
         ELSE l[k] = e[k]

\* the k-th category lists the lower-cased form of e
Lists(k, e) ==
  \E j \in DOMAIN file_categories[k].extensions :
    IsLowerOf(file_categories[k].extensions[j], e)

\* two suffixes that differ at most in the case of their letters
SameUpToCase(d, e) ==
  /\ Len(d) = Len(e)
  /\ \A k \in 1..Len(e) :
       \/ d[k] = e[k]
       \/ \E j \in DOMAIN UpperCase :
            {d[k], e[k]} = {UpperCase[j], LowerCase[j]}

=============================================================================
